---- MODULE Spec2Model ----
(***************************************************************************)
(* Movie recommendation service (src/main.py): three SQLite tables (users, *)
(* movies, ratings) behind five FastAPI handlers.  Handlers are sync       *)
(* functions, so they run on a thread pool and requests interleave at the  *)
(* database operations.  create_user reads (line 106) and later commits    *)
(* (line 112); the other handlers perform one database operation.  Every   *)
(* handler that depends on get_db owns a session that get_db closes in its *)
(* finally block when the request ends.                                    *)
(***************************************************************************)
EXTENDS Integers, Sequences, FiniteSets, TLC

\* ------------------------------------------------------------------ bounds
MaxMovies == 2
MaxRatings == 2

\* Requests that can be in flight at once.
Requests == {"r1", "r2"}

\* Request bodies (UserCreate, MovieCreate, RatingCreate) and path parameters.
UserInputs ==
    { [username |-> "ann", email |-> "a@x", password |-> "pw1"],
      [username |-> "bob", email |-> "a@x", password |-> "pw2"],
      [username |-> "ann", email |-> "b@x", password |-> "pw2"],
      [username |-> "bob", email |-> "b@x", password |-> "pw1"] }

MovieInputs == { [title |-> "Alien", description |-> "space"] }

RatingInputs ==
    { [movie_id |-> 1, user_id |-> 1, rating |-> 4],
      [movie_id |-> 9, user_id |-> 8, rating |-> -7] }

UserIdInputs == {1, 8}

\* Salts bcrypt may draw for one hash.
Salts == {"s1"}

\* ------------------------------------------------------------------- state
VARIABLES
    users,      \* rows of table "users", in insertion order
    movies,     \* rows of table "movies"
    ratings,    \* rows of table "ratings"
    pc,         \* per request: "idle", "commit" (create_user past its check), "finally"
    req,        \* per request: the operation and its input
    resp,       \* per request: the response the handler produced
    session,    \* per request: TRUE while the session made by get_db is open
    returned    \* the movies create_movie has returned so far

vars == <<users, movies, ratings, pc, req, resp, session, returned>>

NoReq == [op |-> "none"]
NoResp == [status |-> 0]

\* ------------------------------------------------------- response schemas
\* Variant: the response schema also carries the stored hash.
UserResponse_WithHash(u) ==
    [id |-> u.id, username |-> u.username, email |-> u.email,
     hashed_password |-> u.hashed_password]

UserResponse(u) == [id |-> u.id, username |-> u.username, email |-> u.email]

MovieResponse(m) == [id |-> m.id, title |-> m.title, description |-> m.description]

RatingResponse(x) ==
    [id |-> x.id, movie_id |-> x.movie_id, user_id |-> x.user_id, rating |-> x.rating]

\* --------------------------------------------------------------- passwords
get_password_hash(password, salt) ==
    [scheme |-> "bcrypt", salt |-> salt, digest |-> <<salt, password>>]

\* passlib's verify: recompute the digest with the hash's own salt.
verify(password, hashed) ==
    /\ hashed.scheme = "bcrypt"
    /\ hashed.digest = <<hashed.salt, password>>

\* ---------------------------------------------------------------- database
\* Variant: the lookup filters on the username column.
EmailRegistered_WrongColumn(email) == \E i \in 1..Len(users) : users[i].username = email

\* db.query(User).filter(User.email == email).first() is not None
EmailRegistered(email) == \E i \in 1..Len(users) : users[i].email = email

\* Variants: one of the two columns is declared without unique=True.
UniqueViolation_UsernameOnly(username, email) ==
    \E i \in 1..Len(users) : users[i].username = username

UniqueViolation_EmailOnly(username, email) ==
    \E i \in 1..Len(users) : users[i].email = email

\* UNIQUE on users.username and users.email, checked when the INSERT is flushed.
UniqueViolation(username, email) ==
    \E i \in 1..Len(users) : users[i].username = username \/ users[i].email = email

\* Variant: the engine enforces the two references.
ForeignKeyViolation_Enforced(movie_id, user_id) ==
    \/ ~\E i \in 1..Len(movies) : movies[i].id = movie_id
    \/ ~\E i \in 1..Len(users) : users[i].id = user_id

\* ForeignKey('movies.id') / ForeignKey('users.id') on an SQLite engine that
\* never turns PRAGMA foreign_keys on: the references are not enforced.
ForeignKeyViolation(movie_id, user_id) == FALSE

\* INTEGER PRIMARY KEY of a table rows are never deleted from.
NextId(table) == Len(table) + 1

InsertUser(u) == Append(users, u)

\* Variant: a movie whose title is already stored replaces that row.
InsertMovie_ByTitle(m) ==
    IF \E i \in 1..Len(movies) : movies[i].title = m.title
    THEN [i \in 1..Len(movies) |->
            IF movies[i].title = m.title THEN [m EXCEPT !.id = movies[i].id] ELSE movies[i]]
    ELSE Append(movies, m)

InsertMovie(m) == Append(movies, m)

\* Variant: one rating per (user_id, movie_id); a second one overwrites it.
InsertRating_Upsert(x) ==
    IF \E i \in 1..Len(ratings) :
          ratings[i].user_id = x.user_id /\ ratings[i].movie_id = x.movie_id
    THEN [i \in 1..Len(ratings) |->
            IF ratings[i].user_id = x.user_id /\ ratings[i].movie_id = x.movie_id
            THEN [ratings[i] EXCEPT !.rating = x.rating]
            ELSE ratings[i]]
    ELSE Append(ratings, x)

InsertRating(x) == Append(ratings, x)

\* Variants: .first() in place of .all(); movies the user has rated left out.
Recommend_First(user_id) ==
    [i \in 1..(IF Len(movies) = 0 THEN 0 ELSE 1) |-> MovieResponse(movies[i])]

Recommend_Unrated(user_id) ==
    LET seen(m) == \E i \in 1..Len(ratings) :
                      ratings[i].user_id = user_id /\ ratings[i].movie_id = m.id
        kept == SelectSeq(movies, LAMBDA m : ~seen(m))
    IN  [i \in 1..Len(kept) |-> MovieResponse(kept[i])]

\* db.query(Movie).all(), serialised through List[MovieResponse]
Recommend(user_id) == [i \in 1..Len(movies) |-> MovieResponse(movies[i])]

\* -------------------------------------------------------------------- init
Init ==
    /\ users = <<>>
    /\ movies = <<>>
    /\ ratings = <<>>
    /\ pc = [r \in Requests |-> "idle"]
    /\ req = [r \in Requests |-> NoReq]
    /\ resp = [r \in Requests |-> NoResp]
    /\ session = [r \in Requests |-> FALSE]
    /\ returned = {}

\* ----------------------------------------------------------------- actions
\* POST /register/, lines 105-108: get_db opens the session, the handler
\* looks the email up and raises HTTP 400 when it is taken.
create_user(r, user) ==
    /\ pc[r] = "idle"
    /\ req' = [req EXCEPT ![r] = [op |-> "create_user", args |-> user]]
    /\ session' = [session EXCEPT ![r] = TRUE]
    /\ IF EmailRegistered(user.email)
       THEN /\ resp' = [resp EXCEPT ![r] =
                  [status |-> 400, body |-> [detail |-> "Email already registered"]]]
            /\ pc' = [pc EXCEPT ![r] = "finally"]
       ELSE /\ resp' = resp
            /\ pc' = [pc EXCEPT ![r] = "commit"]
    /\ UNCHANGED <<users, movies, ratings, returned>>

\* POST /register/, lines 109-114: hash, add, commit, refresh, return.  A
\* UNIQUE violation at commit is an IntegrityError nobody catches.
create_user_commit(r) ==
    /\ pc[r] = "commit"
    /\ \E salt \in Salts :
         LET user == req[r].args
             db_user == [id |-> NextId(users),
                         username |-> user.username,
                         email |-> user.email,
                         hashed_password |-> get_password_hash(user.password, salt)]
         IN IF UniqueViolation(user.username, user.email)
            THEN /\ users' = users
                 /\ resp' = [resp EXCEPT ![r] =
                       [status |-> 500, body |-> [detail |-> "Internal Server Error"]]]
            ELSE /\ users' = InsertUser(db_user)
                 /\ resp' = [resp EXCEPT ![r] =
                       [status |-> 200, body |-> UserResponse(db_user)]]
    /\ pc' = [pc EXCEPT ![r] = "finally"]
    /\ UNCHANGED <<movies, ratings, req, session, returned>>

\* POST /movies/, lines 117-122.
create_movie(r, movie) ==
    /\ pc[r] = "idle"
    /\ Len(movies) < MaxMovies
    /\ LET db_movie == [id |-> NextId(movies),
                        title |-> movie.title,
                        description |-> movie.description]
       IN /\ movies' = InsertMovie(db_movie)
          /\ resp' = [resp EXCEPT ![r] = [status |-> 200, body |-> MovieResponse(db_movie)]]
          /\ returned' = returned \cup {MovieResponse(db_movie)}
    /\ req' = [req EXCEPT ![r] = [op |-> "create_movie", args |-> movie]]
    /\ session' = [session EXCEPT ![r] = TRUE]
    /\ pc' = [pc EXCEPT ![r] = "finally"]
    /\ UNCHANGED <<users, ratings>>

\* POST /ratings/, lines 125-130.
create_rating(r, rating) ==
    /\ pc[r] = "idle"
    /\ Len(ratings) < MaxRatings
    /\ LET db_rating == [id |-> NextId(ratings),
                         movie_id |-> rating.movie_id,
                         user_id |-> rating.user_id,
                         rating |-> rating.rating]
       IN IF ForeignKeyViolation(rating.movie_id, rating.user_id)
          THEN /\ ratings' = ratings
               /\ resp' = [resp EXCEPT ![r] =
                     [status |-> 500, body |-> [detail |-> "Internal Server Error"]]]
          ELSE /\ ratings' = InsertRating(db_rating)
               /\ resp' = [resp EXCEPT ![r] =
                     [status |-> 200, body |-> RatingResponse(db_rating)]]
    /\ req' = [req EXCEPT ![r] = [op |-> "create_rating", args |-> rating]]
    /\ session' = [session EXCEPT ![r] = TRUE]
    /\ pc' = [pc EXCEPT ![r] = "finally"]
    /\ UNCHANGED <<users, movies, returned>>

\* GET /recommendations/{user_id}, lines 133-136.  The JSON list of the
\* response is carried in the field items of the body.
get_recommendations(r, user_id) ==
    /\ pc[r] = "idle"
    /\ req' = [req EXCEPT ![r] = [op |-> "get_recommendations", args |-> [user_id |-> user_id]]]
    /\ resp' = [resp EXCEPT ![r] = [status |-> 200, body |-> [items |-> Recommend(user_id)]]]
    /\ session' = [session EXCEPT ![r] = TRUE]
    /\ pc' = [pc EXCEPT ![r] = "finally"]
    /\ UNCHANGED <<users, movies, ratings, returned>>

\* GET /, lines 139-140: no get_db dependency, so no session.
read_root(r) ==
    /\ pc[r] = "idle"
    /\ req' = [req EXCEPT ![r] = [op |-> "read_root"]]
    /\ resp' = [resp EXCEPT ![r] =
          [status |-> 200,
           body |-> [message |-> "Welcome to the Movie Recommendation System"]]]
    /\ pc' = [pc EXCEPT ![r] = "finally"]
    /\ UNCHANGED <<users, movies, ratings, session, returned>>

\* Variant: db.close() follows the yield without try/finally, so it is skipped
\* when the handler raised.
get_db_exit_NoFinally(r) ==
    /\ pc[r] = "finally"
    /\ session' = [session EXCEPT ![r] = IF resp[r].status = 200 THEN FALSE ELSE session[r]]
    /\ pc' = [pc EXCEPT ![r] = "idle"]
    /\ req' = [req EXCEPT ![r] = NoReq]
    /\ resp' = [resp EXCEPT ![r] = NoResp]
    /\ UNCHANGED <<users, movies, ratings, returned>>

\* The request ends: get_db's finally block closes the session, whether the
\* handler returned or raised.
get_db_exit(r) ==
    /\ pc[r] = "finally"
    /\ session' = [session EXCEPT ![r] = FALSE]
    /\ pc' = [pc EXCEPT ![r] = "idle"]
    /\ req' = [req EXCEPT ![r] = NoReq]
    /\ resp' = [resp EXCEPT ![r] = NoResp]
    /\ UNCHANGED <<users, movies, ratings, returned>>

Next ==
    \E r \in Requests :
        \/ \E user \in UserInputs : create_user(r, user)
        \/ create_user_commit(r)
        \/ \E movie \in MovieInputs : create_movie(r, movie)
        \/ \E rating \in RatingInputs : create_rating(r, rating)
        \/ \E user_id \in UserIdInputs : get_recommendations(r, user_id)
        \/ read_root(r)
        \/ get_db_exit(r)

Spec == Init /\ [][Next]_vars

\* A handler that has started runs to its end, and the framework then leaves
\* the dependency; the arrival of requests is not fair.
FairSpec ==
    /\ Spec
    /\ \A r \in Requests : WF_vars(create_user_commit(r)) /\ WF_vars(get_db_exit(r))

\* ------------------------------------------------------------------ claims
\* What the stored rows say, written out rather than through the handlers'
\* own lookups.
HasEmail(e) == \E i \in 1..Len(users) : users[i].email = e

HasUsername(n) == \E i \in 1..Len(users) : users[i].username = n

\* Request r arrives with operation o and its handler runs its first step.
Received(r, o) == pc[r] = "idle" /\ pc'[r] # "idle" /\ req'[r].op = o

\* Request r, a registration past its existence check, runs its commit.
Commits(r) == pc[r] = "commit" /\ pc'[r] = "finally"

TablesUnchanged == users' = users /\ movies' = movies /\ ratings' = ratings

\* C1: a create_user request whose email some stored user already has is
\* answered with HTTP 400 "Email already registered", whatever its username
\* and password, and leaves the three tables as they were.
C1_DuplicateEmailRejected ==
    [][\A r \in Requests :
          (Received(r, "create_user") /\ HasEmail(req'[r].args.email))
          => /\ pc'[r] = "finally"
             /\ resp'[r] = [status |-> 400,
                            body |-> [detail |-> "Email already registered"]]
             /\ TablesUnchanged]_vars

C1_Witness ==
    \E r \in Requests :
        /\ pc[r] = "finally"
        /\ req[r].op = "create_user"
        /\ resp[r].status = 400
        /\ \E i \in 1..Len(users) :
              /\ users[i].email = req[r].args.email
              /\ users[i].username # req[r].args.username
              /\ ~verify(req[r].args.password, users[i].hashed_password)

\* Two registrations with the same email, r1 already committed with success
\* and r2 past its check (so both checks ran before either commit): r2 commits.
RacingCommit(r1, r2) ==
    /\ r1 # r2
    /\ pc[r1] = "finally"
    /\ req[r1].op = "create_user"
    /\ resp[r1].status = 200
    /\ pc[r2] = "commit"
    /\ req[r2].args.email = req[r1].args.email
    /\ Commits(r2)

WithEmail(table, e) == {i \in 1..Len(table) : table[i].email = e}

\* C2 as stated: when two registrations with one email both pass the check
\* before either commits, the second commit succeeds as well and the store
\* holds two users with that email.
C2_BothSucceed ==
    [][\A r1, r2 \in Requests :
          RacingCommit(r1, r2)
          => /\ resp'[r2].status = 200
             /\ Cardinality(WithEmail(users', req[r2].args.email)) = 2]_vars

\* C2 amended: in that race the second commit is refused by the UNIQUE
\* constraint on users.email: the request ends in a server error, the users
\* table is unchanged and holds one user with that email.
C2_SecondCommitRefused ==
    [][\A r1, r2 \in Requests :
          RacingCommit(r1, r2)
          => /\ resp'[r2].status = 500
             /\ users' = users
             /\ Cardinality(WithEmail(users', req[r2].args.email)) = 1]_vars

C2_Witness ==
    \E r1, r2 \in Requests :
        /\ r1 # r2
        /\ pc[r1] = "finally" /\ pc[r2] = "finally"
        /\ req[r1].op = "create_user" /\ req[r2].op = "create_user"
        /\ req[r1].args.email = req[r2].args.email
        /\ req[r1].args.username # req[r2].args.username
        /\ resp[r1].status = 200
        /\ resp[r2].status = 500
        /\ ~HasUsername(req[r2].args.username)

NoDuplicateUsers ==
    \A i, j \in 1..Len(users) :
        i # j => users[i].username # users[j].username /\ users[i].email # users[j].email

\* A registration arrives whose username is taken and whose email is fresh.
TakenUsernameArrives(r) ==
    /\ Received(r, "create_user")
    /\ HasUsername(req'[r].args.username)
    /\ ~HasEmail(req'[r].args.email)

\* C3 as stated: no two users share a username or an email, and a
\* registration with a taken username and a fresh email is turned away by
\* create_user's existence check.
C3_UsernameCheckedByHandler ==
    /\ []NoDuplicateUsers
    /\ [][\A r \in Requests :
             TakenUsernameArrives(r) => pc'[r] = "finally" /\ resp'[r].status = 400]_vars

\* C3 amended: no two users share a username or an email; a registration
\* with a taken username and a fresh email passes the existence check, which
\* looks at the email only, and is refused at commit by the UNIQUE
\* constraint: a server error, and no row is inserted.
C3_UsernameByConstraint ==
    /\ []NoDuplicateUsers
    /\ [][\A r \in Requests :
             /\ TakenUsernameArrives(r) => pc'[r] = "commit" /\ users' = users
             /\ (Commits(r) /\ HasUsername(req[r].args.username))
                => resp'[r].status = 500 /\ users' = users]_vars

C3_Witness ==
    \E r \in Requests :
        /\ pc[r] = "finally"
        /\ req[r].op = "create_user"
        /\ resp[r].status = 500
        /\ HasUsername(req[r].args.username)
        /\ ~HasEmail(req[r].args.email)

\* The movies table as the API shows it.
AllMovies ==
    [i \in 1..Len(movies) |->
        [id |-> movies[i].id, title |-> movies[i].title,
         description |-> movies[i].description]]

\* C4: every get_recommendations call, for any user_id, returns a list that
\* contains each movie a create_movie request has returned before it, with
\* the same id, title and description.
C4_CreatedMovieRecommended ==
    [][\A r \in Requests :
          Received(r, "get_recommendations")
          => \A m \in returned :
                \E i \in 1..Len(resp'[r].body.items) : resp'[r].body.items[i] = m]_vars

C4_Witness ==
    \E r \in Requests :
        /\ pc[r] = "finally"
        /\ req[r].op = "get_recommendations"
        /\ ~\E i \in 1..Len(users) : users[i].id = req[r].args.user_id
        /\ Cardinality(returned) >= 2
        /\ Len(resp[r].body.items) >= 2
        /\ Len(users) > 0 /\ Len(ratings) > 0

\* C5: on one store state get_recommendations answers every user_id alike,
\* with exactly the movies of the store; users and ratings play no part.
C5_RecommendationsIgnoreUser ==
    [][\A r \in Requests :
          Received(r, "get_recommendations")
          => /\ resp'[r].status = 200
             /\ resp'[r].body.items = AllMovies
             /\ \A u \in UserIdInputs : Recommend(u) = resp'[r].body.items]_vars

C5_Witness ==
    \E r \in Requests :
        /\ pc[r] = "finally"
        /\ req[r].op = "get_recommendations"
        /\ Len(resp[r].body.items) >= 1
        /\ \E i \in 1..Len(users) : users[i].id = req[r].args.user_id
        /\ \E i \in 1..Len(ratings), j \in 1..Len(resp[r].body.items) :
              /\ ratings[i].user_id = req[r].args.user_id
              /\ ratings[i].movie_id = resp[r].body.items[j].id

\* C6: a successful create_user has stored a bcrypt hash that verifies
\* against the submitted password, and its response has the fields id,
\* username and email only; no registration response, success or error,
\* carries hashed_password.
C6_HashStoredNeverReturned ==
    /\ \A i \in 1..Len(users) : users[i].hashed_password.scheme = "bcrypt"
    /\ \A r \in Requests :
          (pc[r] = "finally" /\ req[r].op = "create_user")
          => /\ "hashed_password" \notin DOMAIN resp[r].body
             /\ resp[r].status = 200
                => /\ DOMAIN resp[r].body = {"id", "username", "email"}
                   /\ resp[r].body.username = req[r].args.username
                   /\ resp[r].body.email = req[r].args.email
                   /\ \E i \in 1..Len(users) :
                         /\ users[i].id = resp[r].body.id
                         /\ users[i].username = req[r].args.username
                         /\ users[i].email = req[r].args.email
                         /\ verify(req[r].args.password, users[i].hashed_password)

C6_Witness ==
    \E r \in Requests :
        /\ pc[r] = "finally"
        /\ req[r].op = "create_user"
        /\ resp[r].status = 200
        /\ Len(users) = 2

\* C7: create_rating succeeds for every input: it adds one row and returns
\* it with the submitted movie_id, user_id and rating, whether or not that
\* movie or that user exists and whatever the rating value.
C7_RatingAlwaysAccepted ==
    [][\A r \in Requests :
          Received(r, "create_rating")
          => LET a == req'[r].args
                 b == resp'[r].body
             IN /\ resp'[r].status = 200
                /\ b.movie_id = a.movie_id
                /\ b.user_id = a.user_id
                /\ b.rating = a.rating
                /\ Len(ratings') = Len(ratings) + 1
                /\ ratings'[Len(ratings')] =
                      [id |-> b.id, movie_id |-> a.movie_id,
                       user_id |-> a.user_id, rating |-> a.rating]]_vars

C7_Witness ==
    \E r \in Requests :
        /\ pc[r] = "finally"
        /\ req[r].op = "create_rating"
        /\ resp[r].status = 200
        /\ req[r].args.rating < 0
        /\ Len(movies) > 0 /\ Len(users) > 0
        /\ ~\E i \in 1..Len(movies) : movies[i].id = req[r].args.movie_id
        /\ ~\E i \in 1..Len(users) : users[i].id = req[r].args.user_id

SamePair(table, x) ==
    {i \in 1..Len(table) : table[i].user_id = x.user_id /\ table[i].movie_id = x.movie_id}

\* C8: rating ids are distinct, and every create_rating request adds a row of
\* its own, with a new id, also when the store already holds ratings for the
\* same (user_id, movie_id): the rows already stored stay as they are.
C8_RepeatedRatingsKept ==
    /\ [](\A i, j \in 1..Len(ratings) : i # j => ratings[i].id # ratings[j].id)
    /\ [][\A r \in Requests :
             Received(r, "create_rating")
             => /\ Cardinality(SamePair(ratings', req'[r].args)) =
                      Cardinality(SamePair(ratings, req'[r].args)) + 1
                /\ \A i \in 1..Len(ratings) :
                      ratings'[i] = ratings[i] /\ ratings[i].id # resp'[r].body.id]_vars

C8_Witness ==
    \E i, j \in 1..Len(ratings) :
        /\ i # j
        /\ ratings[i].user_id = ratings[j].user_id
        /\ ratings[i].movie_id = ratings[j].movie_id
        /\ ratings[i].id # ratings[j].id

IsPrefix(s, t) == Len(s) <= Len(t) /\ \A i \in 1..Len(s) : t[i] = s[i]

\* C9: no step updates or deletes a row; a successful create_user,
\* create_movie or create_rating adds one row to its own table and leaves
\* the other two alone; get_recommendations and read_root change no table.
C9_TablesOnlyGrow ==
    [][/\ IsPrefix(users, users')
       /\ IsPrefix(movies, movies')
       /\ IsPrefix(ratings, ratings')
       /\ \A r \in Requests :
             /\ (Commits(r) /\ resp'[r].status = 200)
                => /\ Len(users') = Len(users) + 1
                   /\ movies' = movies /\ ratings' = ratings
             /\ (Received(r, "create_movie") /\ resp'[r].status = 200)
                => /\ Len(movies') = Len(movies) + 1
                   /\ users' = users /\ ratings' = ratings
             /\ (Received(r, "create_rating") /\ resp'[r].status = 200)
                => /\ Len(ratings') = Len(ratings) + 1
                   /\ users' = users /\ movies' = movies
             /\ (Received(r, "get_recommendations") \/ Received(r, "read_root"))
                => TablesUnchanged]_vars

C9_Witness ==
    /\ Len(users) = 2 /\ Len(movies) = 2 /\ Len(ratings) = 2
    /\ \E r1, r2 \in Requests :
          /\ pc[r1] = "finally" /\ req[r1].op = "get_recommendations"
          /\ pc[r2] = "finally" /\ req[r2].op = "read_root"

\* C10: a request that is over holds no open session, and every session
\* get_db opened is closed in the end, after a return as after an HTTP 400 or
\* a failed commit, under any interleaving.
C10_SessionsClosed ==
    /\ [](\A r \in Requests : pc[r] = "idle" => ~session[r])
    /\ \A r \in Requests : session[r] ~> ~session[r]

C10_Witness ==
    \E r1, r2 \in Requests :
        /\ session[r1] /\ pc[r1] = "finally" /\ resp[r1].status = 400
        /\ session[r2] /\ pc[r2] = "finally" /\ resp[r2].status = 500

====
